---- MODULE Spec2Model ----
(***************************************************************************)
(* DrowsyNetwork: the per-connection engine (Socket) as a state machine.   *)
(*                                                                         *)
(* One Socket object, its strand (the serialization domain), the           *)
(* asynchronous reads and writes it has submitted to the transport, and    *)
(* the application around it: threads outside the strand calling Setup,    *)
(* Send and Disconnect, the OnRead / OnDisconnect hooks running inside the *)
(* strand, and the owner that may release the last shared_ptr.             *)
(*                                                                         *)
(* A handler of the strand runs to completion before the next one starts   *)
(* (asio::strand), so each handler is one action.  The handlers are        *)
(* written as operators from a connection record to a connection record,   *)
(* so that the calls a handler makes (FinishRead -> OnRead -> Send ->       *)
(* EnqueueSend -> HandleWrite) compose in the order of the source.         *)
(***************************************************************************)
EXTENDS Integers, Sequences, FiniteSets, TLC

\* ---------------------------------------------------------------- bounds
MaxCalls == 4          \* Setup(), Send() and Disconnect() calls the application makes in one run
MaxCompletions == 3    \* I/O completions the transport delivers in one run
MaxSockets == 3        \* Socket objects constructed in one run
MaxServerCalls == 3    \* Bind() and StartListening() calls made on the Server in one run
MaxAccepts == 3        \* accept completions the transport delivers in one run
MaxAddresses == 2      \* addresses the resolver returns for one host
MaxPayload == 2        \* bytes in the payload of a packet, and the largest header a peer sends
MaxFrames == 2         \* frames the peer sends

\* ------------------------------------------------------------ error codes
Success == "success"

FatalErrors ==
    {"eof", "connection_reset", "connection_aborted", "network_down",
     "network_unreachable", "timed_out", "broken_pipe", "operation_aborted"}

\* IsFatalError without its timed_out line.
IsFatalErrorNoTimeout(ErrorCode) ==
    \/ ErrorCode = "eof"
    \/ ErrorCode = "connection_reset"
    \/ ErrorCode = "connection_aborted"
    \/ ErrorCode = "network_down"
    \/ ErrorCode = "network_unreachable"
    \/ ErrorCode = "broken_pipe"
    \/ ErrorCode = "operation_aborted"

\* Socket::IsFatalError
IsFatalError(ErrorCode) ==
    \/ ErrorCode = "eof"
    \/ ErrorCode = "connection_reset"
    \/ ErrorCode = "connection_aborted"
    \/ ErrorCode = "network_down"
    \/ ErrorCode = "network_unreachable"
    \/ ErrorCode = "timed_out"
    \/ ErrorCode = "broken_pipe"
    \/ ErrorCode = "operation_aborted"

\* What an operation on an open socket can complete with: success, a fatal
\* error, an error outside the fatal set.
OpenCodes == {Success, "eof", "try_again"}

\* Errors outside the fatal set that a read can complete with.
OtherErrors == {"try_again", "interrupted", "no_buffer_space", "not_connected"}

\* Every outcome of a read on an open socket.
ReadCodes == {Success} \cup FatalErrors \cup OtherErrors

\* The packet value read through front() of an empty deque.
Garbage == 0

\* sizeof(DrowsyNetwork::SizeType), the width of the length header.
HeaderSize == 8

\* pop_front() / front() on an empty std::deque is undefined behaviour; the
\* outcomes a build can produce: the process dies, nothing visible happens,
\* or the deque no longer reports empty and a garbage entry is transmitted.
UBOutcomes == {"crash", "nothing", "garbage"}

\* What the application does inside a hook: nothing, or one call.  (The owner
\* dropping its shared_ptr inside a hook destroys the object when the handler
\* returns its own: that is the action Release taken right after the handler.)
OnReadHooks == {"none", "Send", "Disconnect", "Setup"}
OnDisconnectHooks == {"none", "Send", "Setup"}

VARIABLES
    alive,              \* the Socket object exists (some shared_ptr owns it)
    crashed,            \* the process died of undefined behaviour
    m_IsActive,         \* Socket::m_IsActive
    m_WriteQueue,       \* Socket::m_WriteQueue, a sequence of packet ids
    m_IsWriting,        \* Socket::m_IsWriting
    socketOpen,         \* m_Socket->is_open()
    m_Strand,           \* handlers waiting in Socket::m_Strand, in FIFO order
    writeOps,           \* async_write operations the transport has not completed
    readOps,            \* async_read operations the transport has not completed
    nextPkt,            \* id of the packet of the next Send() call (call order)
    setupCalls,         \* Setup() calls made so far
    disconnectCalls,    \* Disconnect() calls made by the application so far
    completions,        \* I/O completions delivered so far
    appended,           \* packets pushed on m_WriteQueue, in push order
    wire,               \* packets handed to async_write, in hand-over order
    setupRuns,          \* Setup handlers that ran on the live object
    disconnectRuns,     \* HandleDisconnect executions
    shutdownCount,      \* shutdown-then-close sequences performed on m_Socket
    onDisconnectCount,  \* OnDisconnect invocations
    onReadCount,        \* OnRead invocations
    deactivations,      \* m_IsActive transitions from true to false
    reactivations,      \* SetActive(true) executed after a HandleDisconnect
    lateArms,           \* operations armed while m_IsActive was false
    failures,           \* failed completions handed to the live object, in order
    racing,             \* a failed read and a failed write waited in the strand together
    discarded,          \* kinds of strand functions whose self.lock() found the object gone
    unclean,            \* OnDisconnect invocations that met a connection not fully inactive
    exposed,            \* writes left reading a packet whose last owning reference was dropped
    framed,             \* the object is an ExampleSocket: HandleRead and HandleWrite are its overrides
    m_LastWriteSize,    \* ExampleSocket::m_LastWriteSize
    sizes,              \* sizes[p] is Instance->size() of packet p, for the packets given a size
    frames,             \* the writes ExampleSocket::HandleWrite submitted: header value, payload, bytes
    isActiveCall,       \* a thread outside the strand inside IsActive(): "idle", "reading", "raced"
    flagRaces,          \* writes of m_IsActive made while such a thread was reading it
    lastRead,           \* what the last IsActive() call of such a thread returned
    m_ReadBuffer,       \* Socket::m_ReadBuffer: the bytes received and not consumed
    peer,               \* the frames the peer sends: the value of each header
    received,           \* bytes of the peer's stream the transport has put into m_ReadBuffer
    delivered,          \* the Data of every OnRead call, in order
    issued              \* for each function of m_Strand: the Setup() calls made before it was added

VARIABLES
    s_NextId,           \* the function-local static s_NextId of Socket::Socket
    objects,            \* the Socket objects of the process: constructor stage, m_Id
    serverAlive,        \* the Server object exists
    serverCrashed,      \* the process died of undefined behaviour in a Server handler
    m_Acceptors,        \* Server::m_Acceptors
    acceptOps,          \* async_accept operations the transport has not completed
    acceptHandlers,     \* completed accepts whose handler has not run yet
    serverCalls,        \* Bind() and StartListening() calls made so far
    startCalls,         \* StartListening() calls made so far
    acceptCompletions,  \* accept completions delivered so far
    onAcceptCount,      \* OnAccept invocations
    nextSock,           \* the transports (TcpSocket) Listen has made so far, plus one
    acceptLog,          \* the accept completions whose handler ran on the live Server
    accepted,           \* the transports handed to OnAccept, in order
    lastCall,           \* the last Bind / StartListening call: what it met, what it returned
    danglingCalls       \* Accept() calls made through the pointer to a destroyed Server

idVars == <<s_NextId, objects>>

serverVars ==
    <<serverAlive, serverCrashed, m_Acceptors, acceptOps, acceptHandlers,
      serverCalls, startCalls, acceptCompletions, onAcceptCount, nextSock,
      acceptLog, accepted, lastCall, danglingCalls>>

connVars ==
    <<alive, crashed, m_IsActive, m_WriteQueue, m_IsWriting, socketOpen,
      m_Strand, writeOps, readOps, nextPkt, setupCalls,
      disconnectCalls, completions, appended, wire, setupRuns, disconnectRuns,
      shutdownCount, onDisconnectCount, onReadCount, deactivations,
      reactivations, lateArms, failures, racing, discarded, unclean, exposed,
      framed, m_LastWriteSize, sizes, frames, isActiveCall, flagRaces,
      lastRead, m_ReadBuffer, peer, received, delivered, issued>>

vars == <<connVars, idVars, serverVars>>

\* The connection as one record, threaded through a handler.
Conn ==
    [alive |-> alive, crashed |-> crashed, m_IsActive |-> m_IsActive,
     m_WriteQueue |-> m_WriteQueue, m_IsWriting |-> m_IsWriting,
     socketOpen |-> socketOpen, m_Strand |-> m_Strand, writeOps |-> writeOps,
     readOps |-> readOps, nextPkt |-> nextPkt,
     setupCalls |-> setupCalls, disconnectCalls |-> disconnectCalls,
     completions |-> completions, appended |-> appended, wire |-> wire,
     setupRuns |-> setupRuns, disconnectRuns |-> disconnectRuns,
     shutdownCount |-> shutdownCount, onDisconnectCount |-> onDisconnectCount,
     onReadCount |-> onReadCount, deactivations |-> deactivations,
     reactivations |-> reactivations, lateArms |-> lateArms,
     failures |-> failures, racing |-> racing, discarded |-> discarded,
     unclean |-> unclean, exposed |-> exposed, framed |-> framed,
     m_LastWriteSize |-> m_LastWriteSize, sizes |-> sizes, frames |-> frames,
     isActiveCall |-> isActiveCall, flagRaces |-> flagRaces,
     lastRead |-> lastRead, m_ReadBuffer |-> m_ReadBuffer, peer |-> peer,
     received |-> received, delivered |-> delivered, issued |-> issued]

Becomes(s) ==
    \E t \in {s} :
        /\ alive' = t.alive
        /\ crashed' = t.crashed
        /\ m_IsActive' = t.m_IsActive
        /\ m_WriteQueue' = t.m_WriteQueue
        /\ m_IsWriting' = t.m_IsWriting
        /\ socketOpen' = t.socketOpen
        /\ m_Strand' = t.m_Strand
        /\ writeOps' = t.writeOps
        /\ readOps' = t.readOps
        /\ nextPkt' = t.nextPkt
        /\ setupCalls' = t.setupCalls
        /\ disconnectCalls' = t.disconnectCalls
        /\ completions' = t.completions
        /\ appended' = t.appended
        /\ wire' = t.wire
        /\ setupRuns' = t.setupRuns
        /\ disconnectRuns' = t.disconnectRuns
        /\ shutdownCount' = t.shutdownCount
        /\ onDisconnectCount' = t.onDisconnectCount
        /\ onReadCount' = t.onReadCount
        /\ deactivations' = t.deactivations
        /\ reactivations' = t.reactivations
        /\ lateArms' = t.lateArms
        /\ failures' = t.failures
        /\ racing' = t.racing
        /\ discarded' = t.discarded
        /\ unclean' = t.unclean
        /\ exposed' = t.exposed
        /\ framed' = t.framed
        /\ m_LastWriteSize' = t.m_LastWriteSize
        /\ sizes' = t.sizes
        /\ frames' = t.frames
        /\ isActiveCall' = t.isActiveCall
        /\ flagRaces' = t.flagRaces
        /\ lastRead' = t.lastRead
        /\ m_ReadBuffer' = t.m_ReadBuffer
        /\ peer' = t.peer
        /\ received' = t.received
        /\ delivered' = t.delivered
        /\ issued' = t.issued
        /\ UNCHANGED <<idVars, serverVars>>

\* The application may make one more call.
MayCall(s) == s.setupCalls + s.disconnectCalls + (s.nextPkt - 1) < MaxCalls

\* A handler waiting in the strand.
Handler(type, pkt, ec) == [type |-> type, pkt |-> pkt, ec |-> ec]

\* asio::post(m_Strand, ...), and a completion bound to the strand
Post(s, h) ==
    [s EXCEPT !.m_Strand = Append(@, h),
              !.issued = Append(@, s.setupCalls)]

\* ------------------------------------------------------- Socket, in-strand

\* Socket::IsActive
IsActive(s) == s.m_IsActive

\* m_IsActive is a plain bool: a store made while another thread is inside
\* IsActive() is a data race with that load.
Store(s) ==
    IF s.isActiveCall = "idle"
    THEN s
    ELSE [s EXCEPT !.isActiveCall = "raced", !.flagRaces = @ + 1]

\* Socket::SetActive
SetActive(s, ActiveStatus) ==
    [Store(s) EXCEPT
        !.m_IsActive = ActiveStatus,
        !.deactivations = IF s.m_IsActive /\ ~ActiveStatus THEN @ + 1 ELSE @,
        !.reactivations = IF ActiveStatus /\ s.disconnectRuns > 0 THEN @ + 1 ELSE @]

\* asio::async_write(*m_Socket, buffer(Instance), bind_executor(m_Strand, ...))
AsyncWrite(s, Instance) ==
    [s EXCEPT !.writeOps = Append(@, [pkt |-> Instance, onOpen |-> s.socketOpen]),
              !.wire = Append(@, Instance),
              !.lateArms = IF s.m_IsActive THEN @ ELSE @ + 1]

\* asio::async_read(*m_Socket, m_ReadBuffer, transfer_at_least(1), ...)
AsyncRead(s) ==
    [s EXCEPT !.readOps = Append(@, [onOpen |-> s.socketOpen]),
              !.lateArms = IF s.m_IsActive THEN @ ELSE @ + 1]

\* Socket::HandleWrite
SocketHandleWrite(s) ==
    IF ~IsActive(s) \/ s.m_WriteQueue = <<>>
    THEN s
    ELSE AsyncWrite(s, Head(s.m_WriteQueue))

\* Socket::HandleRead
SocketHandleRead(s) == AsyncRead(s)

\* asio::async_write(m_Socket, {buffer(&m_LastWriteSize, sizeof(SizeType)),
\* buffer(Instance->data(), m_LastWriteSize)}, ...): one operation over the
\* two buffers.  The header is the member itself, read by the transport; the
\* payload bytes are those of the packet, as many as m_LastWriteSize says.
AsyncWriteFramed(s, Instance) ==
    LET op == [pkt |-> Instance, onOpen |-> s.socketOpen]
    IN  [s EXCEPT !.writeOps = Append(@, op),
                  !.wire = Append(@, Instance),
                  !.frames = Append(@, [pkt |-> Instance,
                                        front |-> Head(s.m_WriteQueue),
                                        header |-> s.m_LastWriteSize,
                                        payload |-> s.m_LastWriteSize,
                                        bytes |-> HeaderSize + s.m_LastWriteSize]),
                  !.lateArms = IF s.m_IsActive THEN @ ELSE @ + 1]

\* ExampleSocket::HandleWrite leaving m_LastWriteSize as the write before
\* set it.
ExampleSocketHandleWriteStale(s) ==
    IF ~IsActive(s) \/ s.m_WriteQueue = <<>>
    THEN s
    ELSE AsyncWriteFramed(s, Head(s.m_WriteQueue))

\* ExampleSocket::HandleWrite
ExampleSocketHandleWrite(s) ==
    IF ~IsActive(s) \/ s.m_WriteQueue = <<>>
    THEN s
    ELSE LET Instance == Head(s.m_WriteQueue)
             sized == [s EXCEPT !.m_LastWriteSize = s.sizes[Instance]]
         IN  AsyncWriteFramed(sized, Instance)

\* asio::async_read(m_Socket, m_ReadBuffer, transfer_exactly(n), ...): the
\* read of a header (kind "size") or of a body (kind "body").
AsyncReadExactly(s, kind, n) ==
    [s EXCEPT !.readOps = Append(@, [onOpen |-> s.socketOpen, kind |-> kind,
                                     Size |-> n]),
              !.lateArms = IF s.m_IsActive THEN @ ELSE @ + 1]

\* ExampleSocket::HandleRead
ExampleSocketHandleRead(s) == AsyncReadExactly(s, "size", HeaderSize)

\* HandleWrite() and HandleRead() are virtual: an ExampleSocket runs its
\* overrides.
HandleWrite(s) ==
    IF s.framed THEN ExampleSocketHandleWrite(s) ELSE SocketHandleWrite(s)

HandleRead(s) ==
    IF s.framed THEN ExampleSocketHandleRead(s) ELSE SocketHandleRead(s)

\* EnqueueSend without its first check, if (!IsActive()) return.
EnqueueSendUnchecked(s, Packet) ==
    LET t == [s EXCEPT !.m_WriteQueue = Append(@, Packet),
                       !.appended = Append(@, Packet)]
    IN  IF ~t.m_IsWriting
        THEN HandleWrite([t EXCEPT !.m_IsWriting = TRUE])
        ELSE t

\* EnqueueSend with push_front for push_back.
EnqueueSendPushFront(s, Packet) ==
    IF ~IsActive(s)
    THEN s
    ELSE LET t == [s EXCEPT !.m_WriteQueue = <<Packet>> \o @,
                            !.appended = Append(@, Packet)]
         IN  IF ~t.m_IsWriting
             THEN HandleWrite([t EXCEPT !.m_IsWriting = TRUE])
             ELSE t

\* Socket::EnqueueSend
EnqueueSend(s, Packet) ==
    IF ~IsActive(s)
    THEN s
    ELSE LET t == [s EXCEPT !.m_WriteQueue = Append(@, Packet),
                            !.appended = Append(@, Packet)]
         IN  IF ~t.m_IsWriting
             THEN HandleWrite([t EXCEPT !.m_IsWriting = TRUE])
             ELSE t

\* Socket::Send: m_Strand.running_in_this_thread() is InStrand.  Every call
\* sends a fresh packet; packets are numbered in the order of the calls.
Send(s, InStrand) ==
    LET Packet == s.nextPkt
        t == [s EXCEPT !.nextPkt = @ + 1]
    IN  IF InStrand
        THEN EnqueueSend(t, Packet)
        ELSE Post(t, Handler("Send", Packet, "none"))

\* Socket::Setup
Setup(s) ==
    Post([s EXCEPT !.setupCalls = @ + 1], Handler("Setup", 0, "none"))

\* What OnDisconnect is promised to find (Socket.hpp, OnDisconnect): the
\* transport closed, the active flag false, nothing queued, the writer idle.
FullyInactive(s) ==
    /\ ~s.socketOpen
    /\ ~s.m_IsActive
    /\ s.m_WriteQueue = <<>>
    /\ ~s.m_IsWriting

\* The application inside OnDisconnect.  Disconnect() is not called from here.
OnDisconnect(s, dh) ==
    LET t == [s EXCEPT !.onDisconnectCount = @ + 1,
                       !.unclean = IF FullyInactive(s) THEN @ ELSE @ + 1]
    IN  CASE dh = "Send" /\ MayCall(t) -> Send(t, TRUE)
          [] dh = "Setup" /\ MayCall(t) -> Setup(t)
          [] OTHER -> t

\* The entries of m_WriteQueue are the owning references the connection
\* holds (the application may drop its own as soon as Send() returns, and
\* every Send() carries a packet of its own); async_write was given
\* asio::buffer(Instance->data(), Instance->size()), which owns nothing.
\* The writes that are left reading freed bytes if the queue lets go of its
\* entries now: those started on the open socket, not yet completed, with
\* the socket still open.
Exposed(s) ==
    Cardinality({k \in DOMAIN s.writeOps :
                    /\ s.writeOps[k].onOpen /\ s.socketOpen
                    /\ \E j \in DOMAIN s.m_WriteQueue :
                          s.m_WriteQueue[j] = s.writeOps[k].pkt})

\* m_WriteQueue.clear(), and the destruction of m_WriteQueue
ReleasePackets(s) == [s EXCEPT !.exposed = @ + Exposed(s)]

\* HandleDisconnect invoking OnDisconnect before it clears the queue and the
\* writer flag.
HandleDisconnectEarlyHook(s, dh) ==
    LET closed == IF s.socketOpen
                  THEN [s EXCEPT !.socketOpen = FALSE, !.shutdownCount = @ + 1]
                  ELSE s
        inactive == SetActive([closed EXCEPT !.disconnectRuns = @ + 1], FALSE)
        hooked == OnDisconnect(inactive, dh)
    IN  [ReleasePackets(hooked) EXCEPT !.m_WriteQueue = <<>>, !.m_IsWriting = FALSE]

\* Socket::HandleDisconnect
HandleDisconnect(s, dh) ==
    LET closed == IF s.socketOpen
                  THEN [s EXCEPT !.socketOpen = FALSE, !.shutdownCount = @ + 1]
                  ELSE s
        inactive == SetActive([closed EXCEPT !.disconnectRuns = @ + 1], FALSE)
        cleared == [ReleasePackets(inactive) EXCEPT !.m_WriteQueue = <<>>,
                                                     !.m_IsWriting = FALSE]
    IN  OnDisconnect(cleared, dh)

\* Disconnect calling HandleDisconnect on the caller's thread, no dispatch.
DisconnectOnCaller(s, InStrand, dh) == HandleDisconnect(s, dh)

\* Socket::Disconnect: asio::dispatch(m_Strand, ...) runs the function at
\* once when called inside the strand and queues it otherwise.
Disconnect(s, InStrand, dh) ==
    IF InStrand
    THEN HandleDisconnect(s, dh)
    ELSE Post(s, Handler("Disconnect", 0, "none"))

\* The application inside OnRead.
OnRead(s, Data, hook, dh) ==
    LET t == [s EXCEPT !.onReadCount = @ + 1,
                       !.delivered = Append(@, Data)]
    IN  CASE hook = "Send" /\ MayCall(t) -> Send(t, TRUE)
          [] hook = "Setup" /\ MayCall(t) -> Setup(t)
          [] hook = "Disconnect" /\ MayCall(t) ->
                Disconnect([t EXCEPT !.disconnectCalls = @ + 1], TRUE, dh)
          [] OTHER -> t

\* m_WriteQueue.front() / pop_front() on an empty deque
PopEmpty(s, ub) ==
    CASE ub = "crash" -> [s EXCEPT !.crashed = TRUE]
      [] ub = "garbage" -> AsyncWrite(s, Garbage)
      [] OTHER -> [s EXCEPT !.m_IsWriting = FALSE]

\* FinishWrite treating write errors as FinishRead treats read errors: only an
\* error of the fatal set disconnects, after any other the packet is sent again.
FinishWriteClassifying(s, ErrorCode, dh, ub) ==
    IF ~IsActive(s)
    THEN s
    ELSE IF ErrorCode # Success
    THEN IF IsFatalError(ErrorCode) THEN Disconnect(s, TRUE, dh) ELSE HandleWrite(s)
    ELSE IF s.m_WriteQueue = <<>>
    THEN PopEmpty(s, ub)
    ELSE LET t == [s EXCEPT !.m_WriteQueue = Tail(@)]
         IN  IF t.m_WriteQueue # <<>>
             THEN HandleWrite(t)
             ELSE [t EXCEPT !.m_IsWriting = FALSE]

\* FinishWrite without its first check, if (!IsActive()) return.
FinishWriteUnguarded(s, ErrorCode, dh, ub) ==
    IF ErrorCode # Success
    THEN Disconnect(s, TRUE, dh)
    ELSE IF s.m_WriteQueue = <<>>
    THEN PopEmpty(s, ub)
    ELSE LET t == [s EXCEPT !.m_WriteQueue = Tail(@)]
         IN  IF t.m_WriteQueue # <<>>
             THEN HandleWrite(t)
             ELSE [t EXCEPT !.m_IsWriting = FALSE]

\* FinishWrite that pops the packet and leaves the next one where it is, no
\* HandleWrite() after pop_front().
FinishWriteNoNext(s, ErrorCode, dh, ub) ==
    IF ~IsActive(s)
    THEN s
    ELSE IF ErrorCode # Success
    THEN Disconnect(s, TRUE, dh)
    ELSE IF s.m_WriteQueue = <<>>
    THEN PopEmpty(s, ub)
    ELSE LET t == [s EXCEPT !.m_WriteQueue = Tail(@)]
         IN  IF t.m_WriteQueue # <<>>
             THEN t
             ELSE [t EXCEPT !.m_IsWriting = FALSE]

\* Socket::FinishWrite
FinishWrite(s, ErrorCode, dh, ub) ==
    IF ~IsActive(s)
    THEN s
    ELSE IF ErrorCode # Success
    THEN Disconnect(s, TRUE, dh)
    ELSE IF s.m_WriteQueue = <<>>
    THEN PopEmpty(s, ub)
    ELSE LET t == [s EXCEPT !.m_WriteQueue = Tail(@)]
         IN  IF t.m_WriteQueue # <<>>
             THEN HandleWrite(t)
             ELSE [t EXCEPT !.m_IsWriting = FALSE]

\* asio::streambuf::consume(n): the first n bytes go, all of them when the
\* buffer holds fewer.
Consume(s, n) ==
    [s EXCEPT !.m_ReadBuffer =
        IF n >= Len(@) THEN <<>> ELSE SubSeq(@, n + 1, Len(@))]

\* FinishRead without its first check, if (!IsActive()) return.
FinishReadUnguarded(s, ErrorCode, BytesTransferred, hook, dh) ==
    IF ErrorCode # Success
    THEN IF IsFatalError(ErrorCode) /\ IsActive(s)
         THEN Disconnect(s, TRUE, dh)
         ELSE IF IsActive(s) THEN HandleRead(s) ELSE s
    ELSE LET Data == s.m_ReadBuffer
             read == OnRead(s, Data, hook, dh)
         IN  HandleRead(Consume(read, BytesTransferred))

\* Socket::FinishRead
FinishRead(s, ErrorCode, BytesTransferred, hook, dh) ==
    IF ~IsActive(s)
    THEN s
    ELSE IF ErrorCode # Success
    THEN IF IsFatalError(ErrorCode) /\ IsActive(s)
         THEN Disconnect(s, TRUE, dh)
         ELSE IF IsActive(s) THEN HandleRead(s) ELSE s
    ELSE LET Data == s.m_ReadBuffer
             read == OnRead(s, Data, hook, dh)
         IN  HandleRead(Consume(read, BytesTransferred))

\* The two's complement of a negative value, or the value itself, in
\* sizeof(SizeType) bytes, the lowest first.  The values of the model are
\* below 2^31 in magnitude: their upper four bytes hold the sign only.
Encode(Size) ==
    [i \in 1..HeaderSize |->
        IF i > 4
        THEN IF Size < 0 THEN 255 ELSE 0
        ELSE IF Size < 0
        THEN 255 - ((((0 - Size) - 1) \div (256 ^ (i - 1))) % 256)
        ELSE (Size \div (256 ^ (i - 1))) % 256]

\* A magnitude no peer delivers: the values of sizeof(SizeType) bytes that
\* are not below 2^31 in magnitude are all read as this one.
Huge == 2147483647

\* *static_cast<const SizeType*>(bytes): the value that sizeof(SizeType)
\* bytes hold, the lowest first.
Decode(bytes) ==
    LET low == bytes[1] + 256 * bytes[2] + 65536 * bytes[3]
        upper(b) == \A i \in 5..HeaderSize : bytes[i] = b
    IN  IF upper(0) /\ bytes[4] < 128
        THEN low + 16777216 * bytes[4]
        ELSE IF upper(255) /\ bytes[4] >= 128
        THEN (low + 16777216 * (bytes[4] - 128)) - Huge - 1
        ELSE IF bytes[HeaderSize] >= 128 THEN 0 - Huge ELSE Huge

\* The value at the front of a buffer that holds a header.
Front(buffer) == Decode([i \in 1..HeaderSize |-> buffer[i].val])

\* ExampleSocket::FinishSizeRead; Size is read from the first
\* sizeof(SizeType) bytes of m_ReadBuffer, whatever they are.
FinishSizeRead(s, ErrorCode, BytesTransferred, dh) ==
    IF ~IsActive(s)
    THEN s
    ELSE IF ErrorCode # Success
    THEN IF IsFatalError(ErrorCode) /\ IsActive(s)
         THEN Disconnect(s, TRUE, dh)
         ELSE IF IsActive(s) THEN HandleRead(s) ELSE s
    ELSE IF BytesTransferred = 0
    THEN HandleRead(s)
    ELSE LET Size == Front(s.m_ReadBuffer)
         IN  AsyncReadExactly(Consume(s, BytesTransferred), "body", Size)

\* ------------------------------------------ the functions given to the strand

\* self.lock() succeeds exactly when the object is alive.  History: a
\* function of this kind found the object gone and returned.
Expired(s, type) == [s EXCEPT !.discarded = @ \cup {type}]

\* the function posted by Socket::Setup
SetupTask(s) ==
    IF s.alive
    THEN HandleRead(SetActive([s EXCEPT !.setupRuns = @ + 1], TRUE))
    ELSE Expired(s, "Setup")

\* the function posted by Socket::Send
SendTask(s, Packet) ==
    IF s.alive THEN EnqueueSend(s, Packet) ELSE Expired(s, "Send")

\* the function dispatched by Socket::Disconnect
DisconnectTask(s, dh) ==
    IF s.alive THEN HandleDisconnect(s, dh) ELSE Expired(s, "Disconnect")

\* History: the live object was handed a failed write, or a read that
\* failed with an error of the fatal set.
Failed(s, path, ErrorCode) ==
    IF ErrorCode # Success /\ (path = "write" \/ ErrorCode \in FatalErrors)
    THEN [s EXCEPT !.failures = Append(@, path)]
    ELSE s

\* the completion handler of Socket::HandleWrite
WriteCompletion(s, ErrorCode, dh, ub) ==
    IF s.alive
    THEN FinishWrite(Failed(s, "write", ErrorCode), ErrorCode, dh, ub)
    ELSE Expired(s, "FinishWrite")

\* The read completion handler holding an owning reference: no lock(), the
\* body runs whether or not anybody else still owns the object.
ReadCompletionOwning(s, ErrorCode, BytesTransferred, hook, dh) ==
    FinishRead(Failed(s, "read", ErrorCode), ErrorCode, BytesTransferred, hook, dh)

\* the completion handler of Socket::HandleRead
ReadCompletion(s, ErrorCode, BytesTransferred, hook, dh) ==
    IF s.alive
    THEN FinishRead(Failed(s, "read", ErrorCode), ErrorCode, BytesTransferred, hook, dh)
    ELSE Expired(s, "FinishRead")

\* the completion handler of ExampleSocket::HandleRead
SizeReadCompletion(s, ErrorCode, BytesTransferred, dh) ==
    IF s.alive
    THEN FinishSizeRead(Failed(s, "read", ErrorCode), ErrorCode,
                        BytesTransferred, dh)
    ELSE Expired(s, "FinishSizeRead")

\* ------------------------------------------------------------ the transport

\* What an operation can complete with: anything while the socket it was
\* started on is open; operation_aborted once that socket was closed under
\* it; bad_descriptor when it was started on a closed socket.
CompletionCodes(op) ==
    IF op.onOpen /\ socketOpen THEN OpenCodes
    ELSE IF op.onOpen THEN {"operation_aborted"}
    ELSE {"bad_descriptor"}

\* A completion handler bound to the strand (bind_executor(m_Strand, ...)) is
\* queued behind the handlers already waiting.
Complete(s, h) ==
    LET t == Post(s, h)
        waits(type, codes) ==
            \E k \in DOMAIN t.m_Strand :
                t.m_Strand[k].type = type /\ t.m_Strand[k].ec \in codes
    IN  [t EXCEPT !.completions = @ + 1,
                  !.racing = @ \/ ( /\ waits("FinishRead", FatalErrors)
                                    /\ waits("FinishWrite", FatalErrors \cup {"try_again", "bad_descriptor"}) )]

Without(seq, i) == SubSeq(seq, 1, i - 1) \o SubSeq(seq, i + 1, Len(seq))

\* -------------------------------------------------------------------- Init

SocketInit ==
    /\ alive = TRUE
    /\ crashed = FALSE
    /\ m_IsActive = FALSE
    /\ m_WriteQueue = <<>>
    /\ m_IsWriting = FALSE
    /\ socketOpen = TRUE
    /\ m_Strand = <<>>
    /\ writeOps = <<>>
    /\ readOps = <<>>
    /\ nextPkt = 1
    /\ setupCalls = 0
    /\ disconnectCalls = 0
    /\ completions = 0
    /\ appended = <<>>
    /\ wire = <<>>
    /\ setupRuns = 0
    /\ disconnectRuns = 0
    /\ shutdownCount = 0
    /\ onDisconnectCount = 0
    /\ onReadCount = 0
    /\ deactivations = 0
    /\ reactivations = 0
    /\ lateArms = 0
    /\ failures = <<>>
    /\ racing = FALSE
    /\ discarded = {}
    /\ unclean = 0
    /\ exposed = 0
    /\ sizes = <<>>
    /\ frames = <<>>
    /\ isActiveCall = "idle"
    /\ flagRaces = 0
    /\ lastRead = "none"
    /\ m_ReadBuffer = <<>>
    /\ received = 0
    /\ delivered = <<>>
    /\ issued = <<>>

\* A Socket whose HandleRead and HandleWrite are those of the base class.
ConnInit ==
    /\ SocketInit
    /\ framed = FALSE
    /\ m_LastWriteSize = 0
    /\ peer = <<>>

\* ExampleSocket::ExampleSocket: m_LastWriteSize(0)
ExampleSocketInit ==
    /\ SocketInit
    /\ framed = TRUE
    /\ m_LastWriteSize = 0

\* No Socket has been constructed: s_NextId(1).
IdInit ==
    /\ s_NextId = 1
    /\ objects = [k \in 1..MaxSockets |-> [stage |-> "none", m_Id |-> 0, after |-> {}]]

\* Server::Server
ServerInit ==
    /\ serverAlive = TRUE
    /\ serverCrashed = FALSE
    /\ m_Acceptors = <<>>
    /\ acceptOps = <<>>
    /\ acceptHandlers = <<>>
    /\ serverCalls = 0
    /\ startCalls = 0
    /\ acceptCompletions = 0
    /\ onAcceptCount = 0
    /\ nextSock = 1
    /\ acceptLog = <<>>
    /\ accepted = <<>>
    /\ lastCall = [kind |-> "none", input |-> <<>>, result |-> "none"]
    /\ danglingCalls = 0

Init == ConnInit /\ IdInit /\ ServerInit

\* ----------------------------------------------------------------- actions

\* A thread outside the strand calls Setup().
CallSetup ==
    /\ alive /\ ~crashed
    /\ MayCall(Conn)
    /\ Becomes(Setup(Conn))

\* A thread outside the strand calls Send(packet).
CallSend ==
    /\ alive /\ ~crashed
    /\ MayCall(Conn)
    /\ Becomes(Send(Conn, FALSE))

\* A thread outside the strand calls Disconnect().
CallDisconnect ==
    /\ alive /\ ~crashed
    /\ MayCall(Conn)
    /\ Becomes(Disconnect([Conn EXCEPT !.disconnectCalls = @ + 1], FALSE, "none"))

\* Socket::~Socket, defaulted: the members go in reverse order of
\* declaration (Socket.hpp: m_Strand, m_Socket, m_Id, m_IsActive,
\* m_WriteQueue, m_ReadBuffer, m_IsWriting), so the write queue lets go of
\* its packets before m_Socket is closed and its operations are cancelled.
\* (The fields of a destroyed object keep their last values in the model;
\* nothing reads them.)
Destroy(s) ==
    LET queueGone == ReleasePackets(s)
    IN  [queueGone EXCEPT !.alive = FALSE, !.socketOpen = FALSE]

\* The owner releases the last shared_ptr while no handler holds one:
\* ~Socket runs.
Release ==
    /\ alive /\ ~crashed
    /\ Becomes(Destroy(Conn))

\* The transport completes a write; its handler goes to the strand.
CompleteWrite ==
    /\ ~crashed
    /\ completions < MaxCompletions
    /\ \E i \in 1..Len(writeOps) :
         \E ec \in CompletionCodes(writeOps[i]) :
            Becomes(Complete([Conn EXCEPT !.writeOps = Without(@, i)],
                             Handler("FinishWrite", writeOps[i].pkt, ec)))

\* The transport completes a read; its handler goes to the strand.
CompleteRead ==
    /\ ~crashed
    /\ completions < MaxCompletions
    /\ \E i \in 1..Len(readOps) :
         \E ec \in CompletionCodes(readOps[i]) :
            Becomes(Complete([Conn EXCEPT !.readOps = Without(@, i)],
                             Handler("FinishRead", 0, ec)))

\* The connection with the first handler of the strand taken off.
Taken == [Conn EXCEPT !.m_Strand = Tail(@), !.issued = Tail(@)]

NextIs(type) == ~crashed /\ m_Strand # <<>> /\ Head(m_Strand).type = type

RunSetup ==
    /\ NextIs("Setup")
    /\ Becomes(SetupTask(Taken))

RunSend ==
    /\ NextIs("Send")
    /\ Becomes(SendTask(Taken, Head(m_Strand).pkt))

\* The hooks a handler can meet: a hook's behaviour is chosen only when the
\* handler, run with hooks that do nothing, invokes it.
OnDisconnectChoices(quiet) ==
    IF quiet.onDisconnectCount = onDisconnectCount THEN {"none"} ELSE OnDisconnectHooks

OnReadChoices(quiet) ==
    IF quiet.onReadCount = onReadCount THEN {"none"} ELSE OnReadHooks

\* Undefined behaviour needs an empty deque.
UBChoices == IF m_WriteQueue = <<>> THEN UBOutcomes ELSE {"nothing"}

RunDisconnect ==
    /\ NextIs("Disconnect")
    /\ \E dh \in OnDisconnectChoices(DisconnectTask(Taken, "none")) :
          Becomes(DisconnectTask(Taken, dh))

RunFinishWrite ==
    /\ NextIs("FinishWrite")
    /\ \E ub \in UBChoices :
          \E dh \in OnDisconnectChoices(WriteCompletion(Taken, Head(m_Strand).ec, "none", ub)) :
             Becomes(WriteCompletion(Taken, Head(m_Strand).ec, dh, ub))

RunFinishRead ==
    /\ NextIs("FinishRead")
    /\ LET h == Head(m_Strand)
       IN  \E hook \in OnReadChoices(ReadCompletion(Taken, h.ec, h.pkt, "none", "none")) :
             \E dh \in OnDisconnectChoices(ReadCompletion(Taken, h.ec, h.pkt, hook, "none")) :
                Becomes(ReadCompletion(Taken, h.ec, h.pkt, hook, dh))

Next ==
    \/ CallSetup
    \/ CallSend
    \/ CallDisconnect
    \/ Release
    \/ CompleteWrite
    \/ CompleteRead
    \/ RunSetup
    \/ RunSend
    \/ RunDisconnect
    \/ RunFinishWrite
    \/ RunFinishRead

Spec == Init /\ [][Next]_vars

\* ------------------------------------------------ the read path, every code

\* What a read can complete with, every error code told apart.
ReadCompletionCodes(op) ==
    IF op.onOpen /\ socketOpen THEN ReadCodes ELSE CompletionCodes(op)

\* The transport completes a read with any code; its handler goes to the
\* strand.
CompleteReadAny ==
    /\ ~crashed
    /\ completions < MaxCompletions
    /\ \E i \in 1..Len(readOps) :
         \E ec \in ReadCompletionCodes(readOps[i]) :
            Becomes(Complete([Conn EXCEPT !.readOps = Without(@, i)],
                             Handler("FinishRead", 0, ec)))

\* The connection seen from its read path: the application sets it up, reads
\* complete with any code, the hooks do what they do in Spec.
NextRead ==
    \/ CallSetup
    \/ CompleteReadAny
    \/ RunSetup
    \/ RunFinishRead

SpecRead == Init /\ [][NextRead]_vars

\* ------------------------------------------ IsActive() from another thread

\* A thread outside the strand, holding a shared_ptr to the connection,
\* enters IsActive(): the load of m_IsActive begins.
BeginIsActive ==
    /\ alive /\ ~crashed
    /\ isActiveCall = "idle"
    /\ Becomes([Conn EXCEPT !.isActiveCall = "reading"])

\* Socket::IsActive returns.  A load that raced with a store is undefined
\* behaviour: the call returns either value.
EndIsActive ==
    /\ ~crashed
    /\ isActiveCall # "idle"
    /\ \E value \in (IF isActiveCall = "raced" THEN BOOLEAN ELSE {m_IsActive}) :
          Becomes([Conn EXCEPT !.isActiveCall = "idle",
                               !.lastRead = IF value THEN "true" ELSE "false"])

\* The connection with a thread that polls IsActive() while the strand sets
\* it up, reads and disconnects.
NextFlag ==
    \/ CallSetup
    \/ CallDisconnect
    \/ BeginIsActive
    \/ EndIsActive
    \/ CompleteRead
    \/ RunSetup
    \/ RunDisconnect
    \/ RunFinishRead

SpecFlag == Init /\ [][NextFlag]_vars

\* ------------------------------------------- the framed example connection

\* What a peer can send as the eight bytes of a header.
HeaderValues == (0 - 1)..MaxPayload

\* The bytes of one frame: the header, then as many body bytes as it says.
FrameBytes(L) ==
    Encode(L) \o [j \in 1..(IF L > 0 THEN L ELSE 0) |-> 64 + j]

\* The bytes the peer sends, frame after frame.
RECURSIVE Stream(_)
Stream(sent) ==
    IF sent = <<>> THEN <<>> ELSE FrameBytes(Head(sent)) \o Stream(Tail(sent))

\* The bytes of the peer that the transport has not taken yet.
Available == Len(Stream(peer)) - received

\* The transport puts the next n bytes of the peer into m_ReadBuffer.
Transfer(s, n) ==
    [s EXCEPT !.m_ReadBuffer =
                  @ \o [j \in 1..n |-> [pos |-> s.received + j,
                                         val |-> Stream(s.peer)[s.received + j]]],
              !.received = @ + n]

\* What a transfer_exactly(n) read can complete with, and with how many
\* bytes: all n with success when the peer sends that many, fewer with an
\* error.  transfer_exactly takes a std::size_t: a negative Size arrives
\* there as 2^64 - |Size|, more bytes than a peer delivers, and the read ends
\* with an error only.
Transfers(op) ==
    LET most == IF op.Size < 0 \/ op.Size > Available THEN Available
                ELSE op.Size - 1
        short == IF op.onOpen THEN 0..most ELSE {0}
    IN  {[ec |-> ec, n |-> n] : ec \in CompletionCodes(op) \ {Success},
                                n \in short}
        \cup (IF /\ Success \in CompletionCodes(op)
                  /\ op.Size >= 0 /\ op.Size <= Available
               THEN {[ec |-> Success, n |-> op.Size]} ELSE {})

\* ExampleServer::OnAccept: the connection is made and set up, once.
ExampleOnAccept ==
    /\ alive /\ ~crashed
    /\ setupCalls = 0
    /\ Becomes(Setup(Conn))

\* A thread outside the strand calls Send(packet) with a packet of some size.
CallSendSized ==
    /\ alive /\ ~crashed
    /\ MayCall(Conn)
    /\ \E size \in 0..MaxPayload :
          Becomes(Send([Conn EXCEPT !.sizes = Append(@, size)], FALSE))

\* The transport completes the read of a header: with an error, or with the
\* next eight bytes of the peer.  The handler's argument is BytesTransferred.
CompleteSizeRead ==
    /\ ~crashed
    /\ completions < MaxCompletions
    /\ \E i \in 1..Len(readOps) :
         /\ readOps[i].kind = "size"
         /\ \E t \in Transfers(readOps[i]) :
              Becomes(Complete(Transfer([Conn EXCEPT !.readOps = Without(@, i)], t.n),
                               Handler("FinishSizeRead", t.n, t.ec)))

\* The transport completes the read of a body.
CompleteBodyRead ==
    /\ ~crashed
    /\ completions < MaxCompletions
    /\ \E i \in 1..Len(readOps) :
         /\ readOps[i].kind = "body"
         /\ \E t \in Transfers(readOps[i]) :
              Becomes(Complete(Transfer([Conn EXCEPT !.readOps = Without(@, i)], t.n),
                               Handler("FinishRead", t.n, t.ec)))

\* The completion lambda of ExampleSocket::HandleRead runs.
\* ExampleSocket::OnDisconnect erases the connection from the manager; the
\* object goes when the handler has returned (Release).
RunFinishSizeRead ==
    /\ NextIs("FinishSizeRead")
    /\ LET h == Head(m_Strand)
       IN  Becomes(SizeReadCompletion(Taken, h.ec, h.pkt, "none"))

\* The completion lambda of the body read runs: Socket::FinishRead, with
\* ExampleSocket::OnRead, which logs the message.
RunBodyFinishRead ==
    /\ NextIs("FinishRead")
    /\ Becomes(ReadCompletion(Taken, Head(m_Strand).ec, Head(m_Strand).pkt,
                              "none", "none"))

\* The completion lambda of ExampleSocket::HandleWrite runs.
RunFramedFinishWrite ==
    /\ NextIs("FinishWrite")
    /\ \E ub \in UBChoices :
          Becomes(WriteCompletion(Taken, Head(m_Strand).ec, "none", ub))

InitFramed == ExampleSocketInit /\ peer = <<>> /\ IdInit /\ ServerInit

\* The write side of the example connection: packets of any size are sent,
\* writes complete, the owner lets go of the connection.
NextFramed ==
    \/ ExampleOnAccept
    \/ CallSendSized
    \/ Release
    \/ CompleteWrite
    \/ RunSetup
    \/ RunSend
    \/ RunFramedFinishWrite

SpecFramed == InitFramed /\ [][NextFramed]_vars

\* The read side of the example connection: the peer sends headers and
\* bodies, reads complete, the owner lets go of the connection.
NextFramedRead ==
    \/ ExampleOnAccept
    \/ Release
    \/ CompleteSizeRead
    \/ CompleteBodyRead
    \/ RunSetup
    \/ RunFinishSizeRead
    \/ RunBodyFinishRead

\* The peer sends some frames, with any headers.
InitFramedRead ==
    /\ ExampleSocketInit
    /\ peer \in [1..MaxFrames -> HeaderValues]
    /\ IdInit
    /\ ServerInit

SpecFramedRead == InitFramedRead /\ [][NextFramedRead]_vars

\* ------------------------------------------------------ the write side alone

\* The write side of a connection: calls from outside, writes that complete,
\* the functions of the strand; reads stay with the transport.
NextDrain ==
    \/ CallSetup
    \/ CallSend
    \/ CallDisconnect
    \/ Release
    \/ CompleteWrite
    \/ RunSetup
    \/ RunSend
    \/ RunDisconnect
    \/ RunFinishWrite

\* The transport completes every write it was given, and the io_context
\* runs the strand while a function waits in it: the function at the head
\* stays there until it is run, so the one condition on each kind of
\* function says that the head is run.
SpecDrain ==
    /\ Init
    /\ [][NextDrain]_vars
    /\ WF_vars(CompleteWrite)
    /\ WF_vars(RunSetup)
    /\ WF_vars(RunSend)
    /\ WF_vars(RunDisconnect)
    /\ WF_vars(RunFinishWrite)

\* ------------------------------------------------ connection identifiers

\* std::atomic<uint64_t>::fetch_add returning the new value instead of the
\* previous one.
AddFetch(counter, Arg) == [value |-> counter + Arg, counter |-> counter + Arg]

\* std::atomic<uint64_t>::fetch_add: one indivisible read-modify-write that
\* returns the previous value.
FetchAdd(counter, Arg) == [value |-> counter, counter |-> counter + Arg]

\* Objects whose constructor has returned.
Constructed == {j \in 1..MaxSockets : objects[j].stage \in {"live", "destroyed"}}

\* Objects whose m_Id has been assigned.
Identified == {j \in 1..MaxSockets : objects[j].stage \in {"assigned", "live", "destroyed"}}

\* A thread enters Socket::Socket for a new object (the member initialisers
\* run).  Any number of threads may be inside the constructor at once.
EnterConstructor(k) ==
    /\ objects[k].stage = "none"
    /\ IF k = 1 THEN TRUE ELSE objects[k - 1].stage # "none"
    /\ objects' = [objects EXCEPT ![k].stage = "entered", ![k].after = Constructed]
    /\ UNCHANGED <<s_NextId, connVars, serverVars>>

\* m_Id = s_NextId.fetch_add(1);
AssignId(k) ==
    /\ objects[k].stage = "entered"
    /\ LET r == FetchAdd(s_NextId, 1)
       IN  /\ s_NextId' = r.counter
           /\ objects' = [objects EXCEPT ![k].stage = "assigned", ![k].m_Id = r.value]
    /\ UNCHANGED <<connVars, serverVars>>

\* The constructor returns.
LeaveConstructor(k) ==
    /\ objects[k].stage = "assigned"
    /\ objects' = [objects EXCEPT ![k].stage = "live"]
    /\ UNCHANGED <<s_NextId, connVars, serverVars>>

\* The last shared_ptr to the object goes away.
DestroyObject(k) ==
    /\ objects[k].stage = "live"
    /\ objects' = [objects EXCEPT ![k].stage = "destroyed"]
    /\ UNCHANGED <<s_NextId, connVars, serverVars>>

NextIds ==
    \E k \in 1..MaxSockets :
        \/ EnterConstructor(k)
        \/ AssignId(k)
        \/ LeaveConstructor(k)
        \/ DestroyObject(k)

SpecIds == Init /\ [][NextIds]_vars

\* ------------------------------------------------------------ the Listener

\* The Server as one record, threaded through a call or a handler.
Srv ==
    [serverAlive |-> serverAlive, serverCrashed |-> serverCrashed,
     m_Acceptors |-> m_Acceptors, acceptOps |-> acceptOps,
     acceptHandlers |-> acceptHandlers, serverCalls |-> serverCalls,
     startCalls |-> startCalls, acceptCompletions |-> acceptCompletions,
     onAcceptCount |-> onAcceptCount, nextSock |-> nextSock,
     acceptLog |-> acceptLog, accepted |-> accepted, lastCall |-> lastCall,
     danglingCalls |-> danglingCalls]

ServerBecomes(v) ==
    /\ serverAlive' = v.serverAlive
    /\ serverCrashed' = v.serverCrashed
    /\ m_Acceptors' = v.m_Acceptors
    /\ acceptOps' = v.acceptOps
    /\ acceptHandlers' = v.acceptHandlers
    /\ serverCalls' = v.serverCalls
    /\ startCalls' = v.startCalls
    /\ acceptCompletions' = v.acceptCompletions
    /\ onAcceptCount' = v.onAcceptCount
    /\ nextSock' = v.nextSock
    /\ acceptLog' = v.acceptLog
    /\ accepted' = v.accepted
    /\ lastCall' = v.lastCall
    /\ danglingCalls' = v.danglingCalls
    /\ UNCHANGED <<connVars, idVars>>

\* What Bind(endpoint) can meet: the acceptor opens and binds, it opens and
\* the bind fails, or it does not open.
BindOutcomes == {"bound", "bind_failed", "open_failed"}

\* The address lists of at most n entries the resolver can return, each
\* entry with what Bind(endpoint) will meet on it.
RECURSIVE EndpointLists(_)
EndpointLists(n) ==
    IF n = 0
    THEN {}
    ELSE [1..n -> BindOutcomes] \cup EndpointLists(n - 1)

\* What m_Resolver.resolve gives Bind(host, port): an error, or one address
\* or more.
Resolutions ==
    {[ec |-> "host_not_found", Endpoints |-> <<>>]}
        \cup {[ec |-> Success, Endpoints |-> e] : e \in EndpointLists(MaxAddresses)}

\* A call begins: nothing returned yet.
Called(v, kind, input) ==
    [v EXCEPT !.serverCalls = @ + 1,
              !.lastCall = [kind |-> kind, input |-> input, result |-> "none"]]

\* The call returns a value, or leaves by an exception.
Returns(v, result) == [v EXCEPT !.lastCall.result = result]
Threw(v) == v.lastCall.result = "threw"

\* Server::GetAcceptor: the position of the acceptor, 0 for nullptr.
\* (The model counts positions from 1, Index is the position.)
GetAcceptor(v, Index) == IF Index > Len(v.m_Acceptors) THEN 0 ELSE Index

\* Server::CloseAcceptor on the acceptor at a position: cancel and close.
CloseAcceptor(v, Index) ==
    IF ~v.m_Acceptors[Index].open
    THEN v
    ELSE [v EXCEPT !.m_Acceptors[Index].open = FALSE,
                   !.m_Acceptors[Index].listening = FALSE]

\* Server::CreateAcceptor: set_option(reuse_address) is called right after
\* open(), before the error of open() is looked at, and it is the overload
\* that throws: on an acceptor that did not open it throws
\* asio::system_error(bad_descriptor).  The local acceptor is destroyed by
\* the unwinding, the vector is untouched.  Otherwise the acceptor is moved
\* to the back of the vector.
CreateAcceptor(v, opened) ==
    IF ~opened
    THEN Returns(v, "threw")
    ELSE [v EXCEPT !.m_Acceptors = Append(@, [open |-> TRUE, listening |-> FALSE])]

\* Server::Bind(const TcpEndpoint&)
Bind(v, outcome) ==
    LET created == CreateAcceptor(v, outcome # "open_failed")
        last == Len(created.m_Acceptors)
    IN  IF Threw(created)
        THEN created
        ELSE IF outcome = "open_failed"
        THEN Returns(created, "false")
        ELSE IF outcome = "bind_failed"
        THEN LET closed == CloseAcceptor(created, last)
             IN  Returns([closed EXCEPT !.m_Acceptors = SubSeq(@, 1, last - 1)],
                         "false")
        ELSE Returns(created, "true")

\* The loop of Server::Bind(string_view, string_view) from the k-th resolved
\* address on.  An exception of Bind(endpoint) leaves the loop and the call.
RECURSIVE BindEach(_, _, _, _)
BindEach(v, Endpoints, k, BoundToAtLeastOne) ==
    IF k > Len(Endpoints)
    THEN Returns(v, IF BoundToAtLeastOne THEN "true" ELSE "false")
    ELSE LET tried == Bind(Returns(v, "none"), Endpoints[k])
         IN  IF Threw(tried)
             THEN tried
             ELSE BindEach(tried, Endpoints, k + 1,
                           BoundToAtLeastOne \/ tried.lastCall.result = "true")

\* Server::Bind(string_view, string_view)
BindHost(v, resolved) ==
    IF resolved.ec # Success
    THEN Returns(v, "false")
    ELSE BindEach(v, resolved.Endpoints, 1, FALSE)

\* Server::Listen: a transport of its own for every async_accept.
Listen(v, Index) ==
    IF GetAcceptor(v, Index) = 0
    THEN v
    ELSE [v EXCEPT !.acceptOps = Append(@, [Index |-> Index, sock |-> v.nextSock]),
                   !.nextSock = @ + 1]

\* Server::StartListening from position Index on; listened[i] tells whether
\* listen() succeeds on the acceptor at position i.
RECURSIVE StartListeningStopping(_, _, _)
StartListeningStopping(v, Index, listened) ==
    IF Index > Len(v.m_Acceptors)
    THEN v
    ELSE IF ~v.m_Acceptors[Index].open \/ ~listened[Index]
    THEN v
    ELSE StartListeningStopping(
             Listen([v EXCEPT !.m_Acceptors[Index].listening = TRUE], Index),
             Index + 1, listened)

RECURSIVE StartListeningFrom(_, _, _)
StartListeningFrom(v, Index, listened) ==
    IF Index > Len(v.m_Acceptors)
    THEN v
    ELSE IF ~v.m_Acceptors[Index].open \/ ~listened[Index]
    THEN StartListeningFrom(v, Index + 1, listened)
    ELSE StartListeningFrom(
             Listen([v EXCEPT !.m_Acceptors[Index].listening = TRUE], Index),
             Index + 1, listened)

\* Server::StartListening
StartListening(v, listened) == StartListeningFrom(v, 1, listened)

\* The application's OnAccept hook receives the transport.  The entry keeps
\* how many accepts the Server had armed by then.
OnAccept(v, Socket) ==
    [v EXCEPT !.onAcceptCount = @ + 1,
              !.accepted = Append(@, [sock |-> Socket, armed |-> v.nextSock])]

\* Server::Accept with the next accept armed only after a success.
AcceptStopping(v, Index, Socket, ErrorCode) ==
    IF ErrorCode = Success
    THEN Listen(OnAccept(v, Socket), Index)
    ELSE v

\* Server::Accept with the next accept armed first.
AcceptRearmFirst(v, Index, Socket, ErrorCode) ==
    LET armed == Listen(v, Index)
    IN  IF ErrorCode = Success THEN OnAccept(armed, Socket) ELSE armed

\* Server::Accept handing over the transport whatever the error.
AcceptUnchecked(v, Index, Socket, ErrorCode) ==
    Listen(OnAccept(v, Socket), Index)

\* Server::Accept
Accept(v, Index, Socket, ErrorCode) ==
    LET handled == IF ErrorCode = Success
                   THEN OnAccept(v, Socket)
                   ELSE v
    IN  Listen(handled, Index)

\* What an accept can complete with: a connection or an error while its
\* acceptor is open, operation_aborted once the acceptor was closed.
AcceptCodes(op) ==
    IF op.Index <= Len(m_Acceptors) /\ m_Acceptors[op.Index].open
    THEN {Success, "connection_aborted"}
    ELSE {"operation_aborted"}

\* The application calls Bind(endpoint).
CallBind ==
    /\ serverAlive /\ ~serverCrashed
    /\ serverCalls < MaxServerCalls
    /\ \E outcome \in BindOutcomes :
          ServerBecomes(Bind(Called(Srv, "Bind", outcome), outcome))

\* The application calls Bind(host, port).
CallBindHost ==
    /\ serverAlive /\ ~serverCrashed
    /\ serverCalls < MaxServerCalls
    /\ \E resolved \in Resolutions :
          ServerBecomes(BindHost(Called(Srv, "BindHost", resolved), resolved))

\* The application calls StartListening().
CallStartListening ==
    /\ serverAlive /\ ~serverCrashed
    /\ serverCalls < MaxServerCalls
    /\ \E listened \in [DOMAIN m_Acceptors -> BOOLEAN] :
          ServerBecomes(StartListening(
              [Called(Srv, "StartListening", listened) EXCEPT !.startCalls = @ + 1],
              listened))

\* The transport completes an accept; its handler is ready to run on a
\* thread of the io_context.
CompleteAccept ==
    /\ ~serverCrashed
    /\ acceptCompletions < MaxAccepts
    /\ \E k \in DOMAIN acceptOps :
         \E ec \in AcceptCodes(acceptOps[k]) :
            ServerBecomes([Srv EXCEPT
                !.acceptOps = Without(@, k),
                !.acceptHandlers = Append(@, [Index |-> acceptOps[k].Index,
                                              sock |-> acceptOps[k].sock,
                                              ec |-> ec]),
                !.acceptCompletions = @ + 1])

\* An accept handler runs: the lambda of Server::Listen calls
\* this->Accept(...).  It captured this as a plain pointer: on a destroyed
\* Server the call is undefined behaviour, the process dies or the call
\* passes unnoticed.
RunAccept ==
    /\ ~serverCrashed
    /\ \E k \in DOMAIN acceptHandlers :
         LET h == acceptHandlers[k]
             taken == [Srv EXCEPT !.acceptHandlers = Without(@, k)]
             logged == [taken EXCEPT !.acceptLog =
                           Append(@, [Index |-> h.Index, sock |-> h.sock,
                                      ec |-> h.ec, armed |-> taken.nextSock])]
         IN  IF serverAlive
             THEN ServerBecomes(Accept(logged, h.Index, h.sock, h.ec))
             ELSE \E ub \in {"crash", "nothing"} :
                     ServerBecomes([taken EXCEPT
                         !.serverCrashed = (ub = "crash"),
                         !.danglingCalls = @ + 1])

\* Server::~Server: every acceptor is closed, the vector is cleared.
DestroyServer ==
    /\ serverAlive /\ ~serverCrashed
    /\ ServerBecomes([Srv EXCEPT
            !.serverAlive = FALSE,
            !.m_Acceptors = <<>>])

NextServer ==
    \/ CallBind
    \/ CallStartListening
    \/ CompleteAccept
    \/ RunAccept
    \/ DestroyServer

SpecServer == Init /\ [][NextServer]_vars

\* The calls that set the Listener up, without the reactor.
NextBind ==
    \/ CallBind
    \/ CallBindHost
    \/ CallStartListening

SpecBind == Init /\ [][NextBind]_vars

\* ------------------------------------------------------------------ claims

\* Operations submitted to the transport whose completion handler has not run:
\* those the transport has not completed and those whose handler waits in the
\* strand.
Waiting(type) == Cardinality({k \in DOMAIN m_Strand : m_Strand[k].type = type})
WritesInFlight == Len(writeOps) + Waiting("FinishWrite")
ReadsInFlight == Len(readOps) + Waiting("FinishRead")

\* C1: while the connection has never been deactivated, the packets handed to
\* the transport are, in order, the packets appended to the outbound queue:
\* every appended packet is either handed over already or still waiting in the
\* queue behind the one in flight, none is handed over twice or out of order.
C1_WireIsAppendOrder ==
    deactivations = 0 =>
        /\ ~crashed
        /\ Len(wire) <= Len(appended)
        /\ wire = SubSeq(appended, 1, Len(wire))
        /\ Len(appended) - Len(wire) =
              IF m_WriteQueue = <<>> THEN 0 ELSE Len(m_WriteQueue) - 1

\* C1 witness: three packets went to the transport in the order they were
\* appended, one of them appended directly from inside OnRead ahead of a
\* packet whose Send() call was made earlier from outside the strand.
C1_Witness ==
    /\ deactivations = 0
    /\ Len(wire) = 3
    /\ wire = appended
    /\ \E k \in 1..2 : wire[k] > wire[k + 1]

\* C2: packets are transmitted in the order of the Send() calls (packets are
\* numbered in call order, and a call is one step, so the call of a smaller
\* number has returned before the call of a larger one begins).
C2_WireIsCallOrder ==
    deactivations = 0 =>
        \A i, j \in DOMAIN wire : i < j => wire[i] < wire[j]

\* C3: a connection has at most one outbound write in flight.
C3_OneWriteInFlight == alive => WritesInFlight <= 1

\* C4: a connection has at most one inbound read in flight.
C4_OneReadInFlight == alive => ReadsInFlight <= 1

\* C5: once a disconnect has been processed the active flag is never true
\* again.
C5_InactiveForGood == disconnectRuns > 0 => ~m_IsActive

\* C6: on an inactive connection the outbound queue is empty, and no read or
\* write is ever armed while the connection is inactive.
C6_NothingArmedInactive ==
    /\ ~m_IsActive => m_WriteQueue = <<>>
    /\ lateArms = 0

\* C7: a Setup() that is not the first one processed, or that is processed
\* after a disconnect, changes neither the active flag nor the outbound queue
\* nor the reads in flight.
C7_SecondSetupIsNoOp ==
    [][ (setupRuns' = setupRuns + 1 /\ (setupRuns >= 1 \/ disconnectRuns >= 1))
            => /\ m_IsActive' = m_IsActive
               /\ m_WriteQueue' = m_WriteQueue
               /\ ReadsInFlight' = ReadsInFlight ]_vars

\* C8: whatever the number of Disconnect() calls, once one has been processed
\* (and no I/O failure disconnected the connection by itself) the transport
\* has been shut down and closed exactly once and OnDisconnect has been
\* invoked exactly once.
C8_DisconnectOnce ==
    (disconnectRuns >= 1 /\ failures = <<>>) =>
        (shutdownCount = 1 /\ onDisconnectCount = 1)

\* C9: when the only causes of disconnection are failed completions (the
\* application calls no Disconnect() and does not set the connection up again
\* after it went down), the connection is deactivated at most once and
\* OnDisconnect is invoked at most once; and once a failed write or a fatally
\* failed read has been handled, exactly once.
C9_FailuresDisconnectOnce ==
    (disconnectCalls = 0 /\ reactivations = 0) =>
        /\ deactivations <= 1
        /\ onDisconnectCount <= 1
        /\ failures # <<>> =>
              (deactivations = 1 /\ onDisconnectCount = 1 /\ ~m_IsActive)

\* C9 witness: a fatally failed read and a failed write waited in the strand
\* together, the read was handled first, then the write, and OnDisconnect was
\* invoked once.
C9_Witness ==
    /\ disconnectCalls = 0 /\ reactivations = 0
    /\ racing
    /\ failures = <<"read", "write">>
    /\ onDisconnectCount = 1 /\ deactivations = 1

\* C10: an activated connection is not destroyed before OnDisconnect has been
\* invoked.
C10_DisconnectBeforeDestroy ==
    (~alive /\ setupRuns >= 1) => onDisconnectCount >= 1

\* The state of the connection object and the hooks invoked on it.
objectState ==
    <<m_IsActive, m_WriteQueue, m_IsWriting, appended, wire, setupRuns,
      disconnectRuns, shutdownCount, onDisconnectCount, onReadCount,
      deactivations, reactivations, lateArms, failures, unclean>>

\* C11: once the connection is destroyed, whatever still runs (a posted
\* Setup, Send or Disconnect, a read or write completion) leaves the
\* connection state as it was, invokes neither OnRead nor OnDisconnect and
\* submits no operation to the transport.
C11_ExpiredDoesNothing ==
    [][ ~alive => /\ UNCHANGED objectState
                  /\ Len(writeOps') <= Len(writeOps)
                  /\ Len(readOps') <= Len(readOps) ]_vars

\* C11 witness: the connection was destroyed while active with four
\* operations pending, a posted Send, a posted Disconnect, a read completion
\* and a write completion; all four ran afterwards and no hook was invoked.
C11_Witness ==
    /\ ~alive
    /\ m_IsActive
    /\ {"Send", "Disconnect", "FinishRead", "FinishWrite"} \subseteq discarded
    /\ onReadCount = 0 /\ onDisconnectCount = 0

\* C12: no write is ever left reading the bytes of a packet whose last owning
\* reference is gone: whenever the queue lets go of its entries (Disconnect
\* processed, connection destroyed), no write started on the still open
\* socket is outstanding for one of them.
C12_PacketOutlivesWrite == exposed = 0

\* The number of Send() calls that reached the live object and left nothing
\* in the outbound queue.
Dropped == (nextPkt - 1) - Waiting("Send") - Len(appended)

\* C13: a Send() that reaches a connection that is not active is dropped.
\* Posted Send (first conjunct): the step that runs it on a live, inactive
\* connection changes nothing but the strand.  Send() called inside
\* OnDisconnect (second conjunct), where the connection is inactive: nothing
\* is queued, nothing is handed to the transport, the writer stays idle.  In
\* both cases no failure is recorded and the process goes on.
C13_InactiveSendDropped ==
    [][ /\ (NextIs("Send") /\ m_Strand' = Tail(m_Strand) /\ alive /\ ~m_IsActive)
            => UNCHANGED <<objectState, writeOps, readOps, crashed>>
        /\ (onDisconnectCount' = onDisconnectCount + 1 /\ nextPkt' = nextPkt + 1)
            => /\ appended' = appended /\ wire' = wire
               /\ m_WriteQueue' = <<>> /\ ~m_IsWriting'
               /\ Len(writeOps') <= Len(writeOps)
               /\ ~crashed' ]_vars

\* C13 witness: two Send() calls were processed on a live connection that was
\* constructed and never activated; nothing was queued or submitted.
C13_Witness ==
    /\ alive /\ ~crashed
    /\ setupRuns = 0 /\ disconnectRuns = 0
    /\ Dropped = 2
    /\ m_WriteQueue = <<>> /\ ~m_IsWriting /\ writeOps = <<>> /\ wire = <<>>

\* The step runs the first function of the strand, of the given kind, on the
\* live object (every other step of a live object lengthens the strand).
Ran(type) ==
    /\ NextIs(type)
    /\ alive /\ alive'
    /\ Len(m_Strand') <= Len(m_Strand)

\* C14: the step that hands a failed write completion, whatever its code, to
\* an active connection disconnects it at once: HandleDisconnect runs and
\* OnDisconnect is invoked within the step, the connection is inactive after
\* it, nothing was handed to the transport (no retransmission, no further
\* write) and the queue is empty.
C14_WriteErrorDisconnects ==
    [][ (Ran("FinishWrite") /\ Head(m_Strand).ec # Success /\ m_IsActive)
            => /\ ~m_IsActive'
               /\ disconnectRuns' = disconnectRuns + 1
               /\ onDisconnectCount' = onDisconnectCount + 1
               /\ wire' = wire
               /\ Len(writeOps') = Len(writeOps)
               /\ m_WriteQueue' = <<>> /\ ~m_IsWriting' ]_vars

\* C14 witness: with no Disconnect() call and no failed read, a failed write
\* took the connection down while a second packet was queued behind the
\* failed one; only the first packet ever reached the transport.
C14_Witness ==
    /\ alive
    /\ disconnectCalls = 0
    /\ failures = <<"write">>
    /\ ~m_IsActive /\ deactivations = 1 /\ onDisconnectCount = 1
    /\ Len(appended) = 2 /\ Len(wire) = 1
    /\ writeOps = <<>> /\ Waiting("FinishWrite") = 0

\* C15: the step that hands a failed read completion to an active connection
\* classifies the error.  An error of the fatal set: HandleDisconnect runs
\* and OnDisconnect is invoked within the step, the connection is inactive
\* after it and the completed read is not replaced.  Any other error: the
\* connection stays active, no hook is invoked, nothing but the read changes
\* and exactly one read is armed in place of the completed one.
C15_ReadErrorClassified ==
    [][ (Ran("FinishRead") /\ Head(m_Strand).ec # Success /\ m_IsActive)
            => IF Head(m_Strand).ec \in FatalErrors
               THEN /\ ~m_IsActive'
                    /\ disconnectRuns' = disconnectRuns + 1
                    /\ onDisconnectCount' = onDisconnectCount + 1
                    /\ onReadCount' = onReadCount
                    /\ readOps' = readOps
               ELSE /\ m_IsActive'
                    /\ UNCHANGED objectState
                    /\ Len(readOps') = Len(readOps) + 1
                    /\ writeOps' = writeOps ]_vars

\* C15 witness: two reads completed and were handled on the active
\* connection, neither successfully (OnRead never ran) nor fatally (no
\* failure recorded, no disconnect); the connection is active with exactly
\* one read armed.
C15_Witness ==
    /\ alive /\ m_IsActive
    /\ setupRuns = 1 /\ disconnectRuns = 0
    /\ completions = 2 /\ Waiting("FinishRead") = 0
    /\ onReadCount = 0 /\ failures = <<>>
    /\ Len(readOps) = 1

\* C16: Disconnect() is graceful.  Taken where the call and its processing
\* are one instant (Disconnect() called inside OnRead, so the queue at the
\* call is the queue HandleDisconnect finds): every packet in the outbound
\* queue at the call has been handed to the transport by the time the step
\* has closed the connection and invoked OnDisconnect.
C16_GracefulDisconnect ==
    [][ (disconnectCalls' = disconnectCalls + 1 /\ disconnectRuns' = disconnectRuns + 1)
            => \A k \in DOMAIN m_WriteQueue :
                  \E j \in DOMAIN wire' : wire'[j] = m_WriteQueue[k] ]_vars

\* C17: every invocation of OnDisconnect found the connection fully
\* inactive: transport closed, active flag false, outbound queue empty,
\* writer idle.
C17_InactiveAtOnDisconnect == unclean = 0

\* C17 witness: OnDisconnect was invoked once, by a disconnect that found
\* the transport open and a packet queued behind the one in flight.
C17_Witness ==
    /\ onDisconnectCount = 1 /\ unclean = 0
    /\ shutdownCount = 1 /\ deactivations = 1
    /\ Len(appended) = 2 /\ Len(wire) = 1

\* The step takes the first function off the strand and runs it (it may post
\* one function behind those waiting).  The strand runs such steps one at a
\* time.
InStrandStep ==
    /\ m_Strand # <<>>
    /\ Len(m_Strand') \in {Len(m_Strand) - 1, Len(m_Strand)}
    /\ SubSeq(m_Strand', 1, Len(m_Strand) - 1) = Tail(m_Strand)

IdsDistinctIncreasing ==
    /\ \A j \in Identified : objects[j].m_Id >= 1 /\ objects[j].m_Id < s_NextId
    /\ Identified # {} => \E j \in Identified : objects[j].m_Id = 1
    /\ \A i, j \in Identified : i # j => objects[i].m_Id # objects[j].m_Id
    /\ \A j \in Identified : \A i \in objects[j].after :
          objects[i].m_Id < objects[j].m_Id

\* C19, the step part: an identifier once assigned never changes, and the
\* counter never goes back.
IdsKept ==
    /\ \A j \in Identified : objects'[j].m_Id = objects[j].m_Id
    /\ s_NextId' >= s_NextId

\* C19: connection identifiers are unique in the process, start at 1, grow
\* with the order of construction, never change and are never handed out
\* again, also for constructors running at the same time on several threads
\* and after objects were destroyed.
C19_IdsUnique == []IdsDistinctIncreasing /\ [][IdsKept]_vars

\* C19 witness: the first object was constructed, got 1 and was destroyed;
\* then two threads were inside the constructor together, the one that
\* entered second got 2 and the one that entered first got 3.
C19_Witness ==
    /\ objects[1].stage = "destroyed" /\ objects[1].m_Id = 1
    /\ objects[2].after = {1} /\ objects[3].after = {1}
    /\ objects[2].stage = "live" /\ objects[3].stage = "live"
    /\ objects[3].m_Id = 2 /\ objects[2].m_Id = 3

\* Accepts of the acceptor at a position that are outstanding: submitted and
\* not completed, or completed with the handler still to run.
Outstanding(Index) ==
    Cardinality({k \in DOMAIN acceptOps : acceptOps[k].Index = Index})
    + Cardinality({k \in DOMAIN acceptHandlers : acceptHandlers[k].Index = Index})

\* C20: once StartListening() has been called on a live Listener, every open
\* endpoint has exactly one accept outstanding.
C20_OneAcceptPerEndpoint ==
    (serverAlive /\ startCalls >= 1) =>
        \A i \in DOMAIN m_Acceptors : m_Acceptors[i].open => Outstanding(i) = 1

\* The handler of an accept completion ran on the live Server in this step;
\* the completion it handled.
Handled == Len(acceptLog') = Len(acceptLog) + 1
LastHandled == acceptLog'[Len(acceptLog')]

\* The completion the handler of a transport was given.
LogOf(Socket) == CHOOSE e \in {acceptLog[k] : k \in DOMAIN acceptLog} : e.sock = Socket

\* C21: the accept loop never stops while the Listener lives: the handler of
\* every accept completion, successful or failed, arms exactly one new accept
\* on the endpoint of the completed one, so that no endpoint has fewer
\* accepts outstanding after the handler than before the completion.
C21_AcceptLoopContinues ==
    [][Handled =>
          /\ acceptOps' = Append(acceptOps, [Index |-> LastHandled.Index,
                                             sock |-> nextSock])
          /\ nextSock' = nextSock + 1
          /\ m_Acceptors'[LastHandled.Index].open
          /\ \A i \in DOMAIN m_Acceptors : Outstanding(i)' = Outstanding(i)]_vars

\* C21 witness: on one endpoint an accept failed, the next one succeeded,
\* both handlers ran and a third accept is armed on that endpoint.
C21_Witness ==
    /\ serverAlive /\ startCalls = 1 /\ acceptHandlers = <<>>
    /\ Len(acceptLog) = 2
    /\ acceptLog[1].Index = 1 /\ acceptLog[1].ec # Success
    /\ acceptLog[2].Index = 1 /\ acceptLog[2].ec = Success
    /\ acceptOps = <<[Index |-> 1, sock |-> 3]>>

\* C22 as stated: when OnAccept is invoked for an accepted transport, the
\* next accept of that endpoint has been armed already.
C22_RearmBeforeHook ==
    \A k \in DOMAIN accepted : accepted[k].armed > LogOf(accepted[k].sock).armed

\* C22: on an accept completion the OnAccept hook is invoked first and the
\* next accept on that endpoint is armed after it returned: no accept was
\* armed between the start of the handler and the hook.
C22_HookBeforeRearm ==
    \A k \in DOMAIN accepted : accepted[k].armed = LogOf(accepted[k].sock).armed

\* C22 witness: OnAccept received a transport and the accept armed after it
\* returned is outstanding.
C22_Witness ==
    /\ serverAlive /\ Len(accepted) = 1
    /\ \E k \in DOMAIN acceptOps :
          /\ acceptOps[k].sock = accepted[1].armed
          /\ acceptOps[k].Index = LogOf(accepted[1].sock).Index

\* The completions of a log that report a connection.
Successful(log) == SelectSeq(log, LAMBDA e : e.ec = Success)

\* C23: of the accept completions handled on the live Listener, OnAccept is
\* invoked exactly once for every successful one, with the transport of that
\* accept and in the order of the completions, and never for one that
\* reports an error; every accept has a transport of its own and no
\* transport is handed to OnAccept twice.
C23_OnAcceptOncePerSuccess ==
    /\ Len(accepted) = Len(Successful(acceptLog))
    /\ \A k \in DOMAIN accepted : accepted[k].sock = Successful(acceptLog)[k].sock
    /\ \A j, k \in DOMAIN accepted : accepted[j].sock = accepted[k].sock => j = k
    /\ \A j, k \in DOMAIN acceptLog : acceptLog[j].sock = acceptLog[k].sock => j = k
    /\ onAcceptCount = Len(accepted)

\* C23 witness: three completions were handled, the second one an error:
\* OnAccept received the transports of the first and the third.
C23_Witness ==
    /\ Len(acceptLog) = 3
    /\ acceptLog[1].ec = Success /\ acceptLog[2].ec # Success
    /\ acceptLog[3].ec = Success
    /\ Len(accepted) = 2
    /\ accepted[1].sock = acceptLog[1].sock
    /\ accepted[2].sock = acceptLog[3].sock

\* A call of Bind(host, port), of Bind(endpoint), of StartListening() was
\* made in this step.
BindHostCalled == serverCalls' = serverCalls + 1 /\ lastCall'.kind = "BindHost"
BindCalled == serverCalls' = serverCalls + 1 /\ lastCall'.kind = "Bind"
StartCalled == serverCalls' = serverCalls + 1 /\ lastCall'.kind = "StartListening"

\* The addresses of a list on which Bind(endpoint) binds.
Bindable(Endpoints) ==
    Cardinality({k \in DOMAIN Endpoints : Endpoints[k] = "bound"})

\* C24: Bind(host, port) returns true exactly when at least one resolved
\* address can be bound and false when resolution fails or no address
\* binds; every address that can be bound is bound whatever happened to the
\* addresses before it, and the endpoints added are as many as the addresses
\* that bound.
C24_BindHostTriesEveryAddress ==
    [][BindHostCalled =>
          LET resolved == lastCall'.input
              bound == IF resolved.ec = Success
                       THEN Bindable(resolved.Endpoints)
                       ELSE 0
          IN  /\ lastCall'.result = (IF bound > 0 THEN "true" ELSE "false")
              /\ Len(m_Acceptors') = Len(m_Acceptors) + bound]_vars

\* C25: a Bind(endpoint) that fails, because the acceptor does not open or
\* because bind reports an error, returns false and leaves the endpoints and
\* the accepts outstanding as they were; a successful one returns true and
\* adds exactly one open endpoint at the end.
C25_FailedBindLeavesSetUnchanged ==
    [][BindCalled =>
          /\ acceptOps' = acceptOps
          /\ IF lastCall'.input = "bound"
             THEN /\ lastCall'.result = "true"
                  /\ m_Acceptors' = Append(m_Acceptors,
                                           [open |-> TRUE, listening |-> FALSE])
             ELSE /\ lastCall'.result = "false"
                  /\ m_Acceptors' = m_Acceptors]_vars

\* C26: StartListening() arms one accept on every endpoint that is open and
\* on which listen succeeds, and none on an endpoint that is closed or on
\* which listen fails, wherever the failing endpoints are in the set.
C26_StartListeningSkipsFailures ==
    [][StartCalled =>
          /\ Len(m_Acceptors') = Len(m_Acceptors)
          /\ \A i \in DOMAIN m_Acceptors :
                LET started == m_Acceptors[i].open /\ lastCall'.input[i]
                IN  /\ Outstanding(i)' = Outstanding(i) + (IF started THEN 1 ELSE 0)
                    /\ m_Acceptors'[i].listening = (m_Acceptors[i].listening \/ started)
                    /\ m_Acceptors'[i].open = m_Acceptors[i].open]_vars

\* C26 witness: of three endpoints listen failed on the second one; the
\* first and the third have their accept armed.
C26_Witness ==
    /\ lastCall.kind = "StartListening"
    /\ Len(m_Acceptors) = 3
    /\ lastCall.input = <<TRUE, FALSE, TRUE>>
    /\ acceptOps = <<[Index |-> 1, sock |-> 1], [Index |-> 3, sock |-> 2]>>
    /\ ~m_Acceptors[2].listening

\* C27: after the Listener was destroyed no accept completion calls into it:
\* no handler invokes Accept() (and through it OnAccept or Listen) on the
\* destroyed object, whenever the reactor delivers the cancelled completions.
C27_DestroyedListenerUntouched == danglingCalls = 0

\* C28 as stated, for the headers that are 0 or negative: the handler that
\* is given such a header on an active connection disconnects it at once,
\* arms no read and does not invoke OnRead.
C28_BadHeaderDisconnects ==
    [][(/\ Ran("FinishSizeRead")
        /\ m_IsActive
        /\ Head(m_Strand).ec = Success
        /\ Head(m_Strand).pkt > 0
        /\ Front(m_ReadBuffer) <= 0) =>
          /\ ~m_IsActive'
          /\ disconnectRuns' = disconnectRuns + 1
          /\ readOps' = readOps
          /\ onReadCount' = onReadCount]_vars

\* The packets of the framed writes, in the order of the writes.
Framed == [k \in DOMAIN frames |-> frames[k].pkt]

\* A framed write is with the transport on the open socket.
FrameInFlight(k) == writeOps[k].onOpen /\ socketOpen

\* C29: every framed write is one operation of H + S bytes for the packet at
\* the head of the queue, S being the payload length of that packet: the
\* header holds S, S payload bytes follow it, and the header the transport
\* reads stays S while the write is in flight; a handler submits at most one
\* write, and the writes follow the order in which the packets were queued.
C29_FrameMatchesHead ==
    /\ [](/\ \A k \in DOMAIN frames :
                /\ frames[k].pkt = frames[k].front
                /\ frames[k].header = sizes[frames[k].pkt]
                /\ frames[k].payload = sizes[frames[k].pkt]
                /\ frames[k].bytes = HeaderSize + sizes[frames[k].pkt]
          /\ \A k \in DOMAIN writeOps :
                FrameInFlight(k) => m_LastWriteSize = sizes[writeOps[k].pkt]
          /\ Len(frames) <= Len(appended)
          /\ Framed = SubSeq(appended, 1, Len(frames)))
    /\ [][/\ Len(frames') - Len(frames) \in {0, 1}
          /\ Len(frames') > Len(frames) =>
                /\ Len(writeOps') = Len(writeOps) + 1
                /\ m_IsWriting']_vars

\* C29 witness: three packets of different lengths were queued; the first
\* write has completed and the second one, with its own header, is in flight
\* while the third packet waits.
C29_Witness ==
    /\ Len(frames) = 2 /\ Len(sizes) = 3
    /\ frames[1].header = 2 /\ frames[1].bytes = HeaderSize + 2
    /\ frames[2].header = 0 /\ frames[2].bytes = HeaderSize
    /\ Len(writeOps) = 1 /\ FrameInFlight(1)
    /\ Len(m_WriteQueue) = 2

\* An operation started on the open socket whose socket was closed under it:
\* the transport completes it with operation_aborted.
Cancelled(op) == op.onOpen /\ ~socketOpen

\* C30: processing a disconnect does not abort the I/O in flight: on a live
\* connection no outstanding read or write is cancelled, each one still
\* completes or fails on its own.
C30_DisconnectLeavesIO ==
    alive =>
        /\ \A k \in DOMAIN writeOps : ~Cancelled(writeOps[k])
        /\ \A k \in DOMAIN readOps : ~Cancelled(readOps[k])

\* C31: IsActive() is safe to call from a thread outside the strand: no
\* store of the active flag is made while such a thread is reading it
\* without synchronisation.
C31_IsActiveThreadSafe == flagRaces = 0

\* C32: a successful read completion handled on an active connection
\* invokes OnRead once and arms one new read, and from activation on a live
\* active connection has exactly one read outstanding at every instant: in
\* flight, or completed with its handler about to run.
C32_ReadPipeline ==
    /\ []((alive /\ m_IsActive) => ReadsInFlight = 1)
    /\ [][(/\ Ran("FinishRead")
           /\ m_IsActive
           /\ Head(m_Strand).ec = Success) =>
             /\ onReadCount' = onReadCount + 1
             /\ Len(readOps') = Len(readOps) + 1]_vars

\* The bytes of the peer before its frame i.
RECURSIVE Before(_)
Before(i) == IF i = 1 THEN 0 ELSE Before(i - 1) + Len(FrameBytes(peer[i - 1]))

\* The body of the peer's frame i, as the transport puts it into the buffer.
BodyOf(i) ==
    [j \in 1..peer[i] |->
        [pos |-> Before(i) + HeaderSize + j,
         val |-> Stream(peer)[Before(i) + HeaderSize + j]]]

\* The positions, in the peer's stream, of the bytes of a buffer.
Positions(buffer) == {buffer[j].pos : j \in DOMAIN buffer}

\* C33, framed mode, for a peer whose headers are all valid lengths: the
\* k-th OnRead call carries exactly the body of the k-th frame, so no header
\* byte is delivered and the bodies arrive once and in order; and a body byte
\* that was received and has left the read buffer was delivered.
C33_DeliveredOnceInOrder ==
    (framed /\ \A i \in DOMAIN peer : peer[i] >= 1) =>
        /\ Len(delivered) <= Len(peer)
        /\ \A k \in DOMAIN delivered : delivered[k] = BodyOf(k)
        /\ \A i \in DOMAIN peer :
             \A pos \in Positions(BodyOf(i)) :
                (pos <= received /\ pos \notin Positions(m_ReadBuffer)) =>
                    \E k \in DOMAIN delivered : pos \in Positions(delivered[k])

\* C34: between the handlers of a connection the writer-busy flag is set
\* exactly when a write is in flight, and on an active connection exactly
\* when the outbound queue holds a packet; a write in flight is for the
\* packet at the head of the queue; the handler of a successful completion
\* pops that packet and submits the write of the next one, or, the queue
\* being empty then, clears the flag.
C34_WriteBookkeeping ==
    /\ []((alive /\ ~crashed) =>
            /\ m_IsWriting <=> WritesInFlight >= 1
            /\ m_IsActive => (m_IsWriting <=> m_WriteQueue # <<>>)
            /\ \A k \in DOMAIN writeOps :
                  /\ m_WriteQueue # <<>>
                  /\ writeOps[k].pkt = Head(m_WriteQueue))
    /\ [][(/\ Ran("FinishWrite")
           /\ m_IsActive /\ ~crashed'
           /\ Head(m_Strand).ec = Success
           /\ m_WriteQueue # <<>>) =>
             /\ m_WriteQueue' = Tail(m_WriteQueue)
             /\ IF Tail(m_WriteQueue) = <<>>
                THEN ~m_IsWriting' /\ writeOps' = writeOps
                ELSE /\ m_IsWriting'
                     /\ Len(writeOps') = Len(writeOps) + 1
                     /\ writeOps'[Len(writeOps')].pkt = Head(Tail(m_WriteQueue))]_vars

\* C35: the step that hands a read or write completion, whatever its code,
\* to a live connection that is not active only takes it off the strand:
\* OnRead is not invoked, the outbound queue and the writer flag stay as they
\* are, no read or write is submitted, and neither HandleDisconnect runs nor
\* OnDisconnect is invoked.
C35_LateCompletionInert ==
    [][((Ran("FinishRead") \/ Ran("FinishWrite")) /\ ~m_IsActive) =>
          /\ m_Strand' = Tail(m_Strand)
          /\ UNCHANGED <<m_IsActive, m_WriteQueue, m_IsWriting, appended,
                         onReadCount, delivered, writeOps, readOps, wire,
                         lateArms, disconnectRuns, shutdownCount,
                         onDisconnectCount, socketOpen, crashed>>]_vars

\* C35 witness: the connection was taken down by Disconnect() with a write
\* and a read outstanding; both completions were delivered afterwards, and
\* HandleDisconnect and OnDisconnect ran once, OnRead never.
C35_Witness ==
    /\ alive /\ ~crashed
    /\ ~m_IsActive
    /\ disconnectCalls = 1 /\ Waiting("Disconnect") = 0
    /\ disconnectRuns = 1 /\ onDisconnectCount = 1
    /\ Len(wire) = 1 /\ WritesInFlight = 0
    /\ setupRuns = 1 /\ ReadsInFlight = 0
    /\ onReadCount = 0

\* C36: a Send() or Disconnect() added to the strand after a Setup() call
\* returned runs after the function of that Setup(): every Setup() made
\* before it has activated the connection by then.  Such a Send is enqueued
\* (the connection not having been taken down in between), such a Disconnect
\* leaves the connection inactive, and a connection taken down by a
\* Disconnect() after its activation is not active in any later state.
C36_SetupOrderedBeforeLater ==
    /\ [][((Ran("Send") \/ Ran("Disconnect")) /\ Head(issued) >= 1) =>
             /\ setupRuns >= Head(issued)
             /\ (NextIs("Send") /\ deactivations = 0) =>
                    /\ m_IsActive
                    /\ appended' = Append(appended, Head(m_Strand).pkt)
             /\ NextIs("Disconnect") => ~m_IsActive']_vars
    /\ []((deactivations >= 1 /\ failures = <<>>) => ~m_IsActive)

\* A packet waits in the outbound queue of the live connection.
Queued(Packet) ==
    /\ alive /\ ~crashed
    /\ \E k \in DOMAIN m_WriteQueue : m_WriteQueue[k] = Packet

\* C37: with every write completed by the transport and every function of
\* the strand run, a packet in the outbound queue does not stay there: it is
\* popped by the completion of its write or dropped with the queue when the
\* connection goes down (or the object is destroyed).
C37_QueueDrains ==
    \A Packet \in 1..MaxCalls : Queued(Packet) ~> ~Queued(Packet)

\* C37 witness: three packets were queued on an active connection, the
\* second and third behind a write in flight; all were written, one after
\* the other, and the queue is empty with the connection still active.
C37_Witness ==
    /\ alive /\ ~crashed
    /\ m_IsActive /\ deactivations = 0
    /\ Len(appended) = 3 /\ wire = appended
    /\ m_WriteQueue = <<>> /\ ~m_IsWriting
    /\ WritesInFlight = 0

====
